---- MODULE Spec2Model ----
(***************************************************************************)
(* The HTTP transport of the ClickHouse client (conn_http.go): one         *)
(* connection handle (httpConnect), from dialHttp to close, used by one    *)
(* caller at a time.  Every method is one action; the server's answers to  *)
(* an HTTP exchange and the content of the decoded block are inputs.       *)
(***************************************************************************)
EXTENDS Integers, Sequences, FiniteSets, TLC

(* ------------------------------ bounds --------------------------------- *)
\* rows the server may return for a query
MaxRows == 2
\* chunks of text in a response body
MaxBody == 1

(* ------------------------- program constants --------------------------- *)
quotaKeyParamName == "quota_key"
queryIDParamName == "query_id"
defaultFormatParamName == "default_format"
defaultFormatValue == "Native"
StatusOK == 200

(* ------------------------------ values --------------------------------- *)
\* a setting's value is an integer or a string (interface{} in the code)
IntV(n) == [int |-> n]
StrV(s) == [str |-> s]

\* strconv of the integers that occur
Itoa(n) ==
  CASE n = 0 -> "0"
    [] n = 1 -> "1"
    [] n = 200 -> "200"
    [] n = 204 -> "204"
    [] n = 500 -> "500"

\* fmt.Sprint(v)
Sprint(v) == IF "int" \in DOMAIN v THEN Itoa(v.int) ELSE v.str

\* the parameter names that occur, in the byte order url.Values.Encode sorts by
KeyOrder == <<"default_format", "query_id", "quota_key">>
Keys == {KeyOrder[i] : i \in DOMAIN KeyOrder}

\* all maps from some of the keys K to values of V
Maps(K, V) == UNION {[D -> V] : D \in SUBSET K}
EmptyMap == [k \in {} |-> 0]

(* ----------------------------- errors ---------------------------------- *)
\* an error value: what produced it and the pieces of its message
NilErr == [kind |-> "nil", msg |-> <<>>]
ErrBadConn == [kind |-> "driver.ErrBadConn", msg |-> <<"driver: bad connection">>]
ErrNotSupported == [kind |-> "errors.New", msg |-> <<"HTTP: not supported">>]
ErrPing == [kind |-> "errors.New", msg |-> <<"clickhouse [ping]:: cannot ping clickhouse">>]
ErrNilContext == [kind |-> "net/http", msg |-> <<"net/http: nil Context">>]
ErrNetwork == [kind |-> "net", msg |-> <<"dial tcp: i/o timeout">>]
ErrBodyRead == [kind |-> "io", msg |-> <<"unexpected EOF">>]
ErrDecode == [kind |-> "proto", msg |-> <<"block: decode failed">>]
ErrEncode == [kind |-> "proto", msg |-> <<"block: encode failed">>]
ErrUnknownZone(name) == [kind |-> "time", msg |-> <<"unknown time zone ", name>>]

\* errors.Wrap(err, text): "text: cause"
Wrap(err, text) == [kind |-> "errors.Wrap", msg |-> <<text, ": ">> \o err.msg]

\* fmt.Errorf("clickhouse [execute]:: %d code: %s", code, string(msg))
ErrorfExecute(code, msg) ==
  [kind |-> "fmt.Errorf",
   msg |-> <<"clickhouse [execute]:: ", Itoa(code), " code: ">> \o msg]

(* --------------------------- url.Values -------------------------------- *)
\* A raw query is the sequence of its key=value pairs, a url.Values is a map
\* from each key present to the sequence of its values.

\* url.URL.Query(): parse the raw query
ParseQuery(raw) ==
  [k \in {raw[i][1] : i \in DOMAIN raw} |->
     LET ps == SelectSeq(raw, LAMBDA p : p[1] = k)
     IN [i \in DOMAIN ps |-> ps[i][2]]]

\* url.Values.Set(k, v): replace every value of k by v
ValuesSet(values, k, v) ==
  [x \in DOMAIN values \cup {k} |-> IF x = k THEN <<v>> ELSE values[x]]

\* url.Values.Encode(): the pairs, sorted by key
RECURSIVE EncodeFrom(_, _)
EncodeFrom(values, i) ==
  IF i > Len(KeyOrder) THEN <<>>
  ELSE LET k == KeyOrder[i]
       IN (IF k \in DOMAIN values
           THEN [j \in DOMAIN values[k] |-> <<k, values[k][j]>>]
           ELSE <<>>) \o EncodeFrom(values, i + 1)

Encode(values) == EncodeFrom(values, 1)

\* for k, v := range settings { query.Set(k, fmt.Sprint(v)) }; the keys of a
\* map are unique, so the order of the iteration does not show
SetAll(values, settings) ==
  [x \in DOMAIN values \cup DOMAIN settings |->
     IF x \in DOMAIN settings THEN <<Sprint(settings[x])>> ELSE values[x]]

\* the values a raw query carries for key k
ParamValues(raw, k) ==
  LET ps == SelectSeq(raw, LAMBDA p : p[1] = k)
  IN [i \in DOMAIN ps |-> ps[i][2]]

(* ------------------------- inputs of the calls ------------------------- *)
\* Options.Settings of the dial
DialSettingVals == {IntV(0)}
DialSettings == Maps(Keys, DialSettingVals)

\* QueryOptions of a call; NoOptions is the nil pointer
SettingVals == {StrV("JSON")}
NoOptions == [nil |-> TRUE]
QueryOptions ==
  [queryID : {"", "q1"}, quotaKey : {"", "k1"}, settings : Maps(Keys, SettingVals)]
EmptyOptions == [queryID |-> "", quotaKey |-> "", settings |-> EmptyMap]

\* context.Context; NilCtx is the nil interface
BackgroundCtx == "context.Background"
NilCtx == "nil"
Ctxs == {BackgroundCtx, NilCtx}

\* The context and options of a prepareRequest: every options value with a
\* context, and, as no request is constructed with a nil context whatever
\* the options hold, the nil context with nil and with empty options
PrepareInputs ==
  ({BackgroundCtx} \X ({NoOptions} \cup QueryOptions)) \cup
  ({NilCtx} \X {NoOptions, EmptyOptions})

(* ----------------------- the server's answers -------------------------- *)
\* text of a body, in chunks
Chunks == {"syntax error", "\n"}
Texts == UNION {[1..n -> Chunks] : n \in 0..MaxBody}

\* A response body: its data, and failAfter = k >= 0 when the read that
\* follows the k-th chunk fails (-1: the body reads to EOF); read counts the
\* chunks read from it and closed tells whether Close was called on it.
Bodies ==
  {b \in [data : Texts, failAfter : -1..MaxBody, read : {0}, closed : {FALSE}] :
     b.failAfter <= Len(b.data)}

Statuses == {200, 204, 500}

\* Content-Length: the length of the body, unknown (-1) for an empty one
ContentLength(body) == IF body.data = <<>> THEN -1 ELSE Len(body.data)

\* What client.Do meets: a transport failure, or a response
NoResponse == [neterr |-> TRUE]
Responses ==
  {NoResponse} \cup
  {[neterr |-> FALSE, status |-> s, contentLength |-> ContentLength(b),
    body |-> b] : s \in Statuses, b \in Bodies}

\* What the decoder finds in a stream: no block, or a block of named columns
\* and rows, every row as wide as the columns; iterErr tells that the
\* iteration over the rows ends with an error after the rows of data, which
\* rows.Err() would report
ColumnLists == {<<>>, <<"1">>, <<"timeZone()">>, <<"1", "1">>}
ZoneNames == {"UTC", "Europe/Berlin", "Mars/Olympus"}
RowsOfWidth(w) == UNION {[1..n -> [1..w -> ZoneNames]] : n \in 0..MaxRows}
NoBlock == [nil |-> TRUE]
Blocks ==
  UNION {{[columns |-> c, data |-> d, iterErr |-> f] :
            d \in RowsOfWidth(Len(c)), f \in BOOLEAN} :
           c \in ColumnLists}
Decodable == {NoBlock} \cup Blocks

IsNil(x) == "nil" \in DOMAIN x

(* ------------------------------ the handle ----------------------------- *)
\* httpConnect: url is the raw query of the endpoint (scheme and host do not
\* change), client is the pointer to the http.Client, location the pointer to
\* the time.Location
NilClient == "nil"
TheClient == "http.Client"
NoLocation == "nil"
NoRequest == [nil |-> TRUE]
NoStream == [nil |-> TRUE]
NoRows == [nil |-> TRUE]

\* time.LoadLocation(name): "" and "UTC" both name UTC
KnownZones == {"UTC", "Europe/Berlin"}
LoadLocation(name) ==
  IF name = "" \/ name = "UTC" THEN [location |-> "UTC", err |-> NilErr]
  ELSE IF name \in KnownZones THEN [location |-> name, err |-> NilErr]
  ELSE [location |-> NoLocation, err |-> ErrUnknownZone(name)]

\* http.NewRequestWithContext(ctx, http.MethodPost, h.url.String(), reader)
NewRequestWithContext(ctx, rawQuery, reader) ==
  IF ctx = NilCtx
  THEN [req |-> NoRequest, err |-> ErrNilContext]
  ELSE [req |-> [method |-> "POST", rawQuery |-> rawQuery, body |-> reader,
                 ctx |-> ctx],
        err |-> NilErr]

\* httpConnect.isBad
isBad(h) == IF h.client = NilClient THEN TRUE ELSE FALSE

\* asyncInsert as it would be if it looked at the transport first
asyncInsertOnOpenOnly(h, ctx, query, wait) ==
  [h |-> h,
   err |-> IF h.client = NilClient THEN ErrBadConn ELSE ErrNotSupported,
   exchanges |-> 0]

\* httpConnect.asyncInsert
asyncInsert(h, ctx, query, wait) ==
  [h |-> h, err |-> ErrNotSupported, exchanges |-> 0]

\* buf.ReadFrom(response.Body): read chunk after chunk to EOF or to an error
RECURSIVE ReadFrom(_, _, _)
ReadFrom(buf, body, n) ==
  IF body.failAfter = n THEN [buf |-> buf, n |-> n, err |-> ErrBodyRead]
  ELSE IF n = Len(body.data) THEN [buf |-> buf, n |-> n, err |-> NilErr]
  ELSE ReadFrom(Append(buf, body.data[n + 1]), body, n + 1)

\* readResponse as it would be if the body was closed after a complete read
\* only, and not by a defer
readResponseNoDefer(response) ==
  LET read == ReadFrom(<<>>, response.body, 0)
  IN IF read.err # NilErr
     THEN [bytes |-> <<>>, err |-> read.err,
           body |-> [response.body EXCEPT !.read = read.n], capacity |-> 0]
     ELSE [bytes |-> read.buf, err |-> NilErr,
           body |-> [response.body EXCEPT !.read = read.n, !.closed = TRUE],
           capacity |-> 0]

\* readResponse; body is the response body as readResponse leaves it
readResponse(response) ==
  LET capacity == IF response.contentLength > 0 THEN response.contentLength ELSE 0
      read == ReadFrom(<<>>, response.body, 0)
      closedBody == [response.body EXCEPT !.read = read.n, !.closed = TRUE]
  IN IF read.err # NilErr
     THEN [bytes |-> <<>>, err |-> read.err, body |-> closedBody,
           capacity |-> capacity]
     ELSE [bytes |-> read.buf, err |-> NilErr, body |-> closedBody,
           capacity |-> capacity]

\* the per-call settings as they would be written without the format check
OverlaidSettingsUnchecked(settings) == settings

\* the per-call settings that prepareRequest writes: all but default_format
OverlaidSettings(settings) ==
  [k \in DOMAIN settings \ {defaultFormatParamName} |-> settings[k]]

\* the parameters as they would be if the per-call settings were written
\* first, and the query identifier and the quota key after them
MergedQuerySettingsFirst(rawQuery, options) ==
  LET q0 == SetAll(ParseQuery(rawQuery), OverlaidSettings(options.settings))
      q1 == IF options.queryID # ""
            THEN ValuesSet(q0, queryIDParamName, options.queryID)
            ELSE q0
  IN Encode(IF options.quotaKey # ""
            THEN ValuesSet(q1, quotaKeyParamName, options.quotaKey)
            ELSE q1)

\* the parameters of a request built with non-nil options
MergedQuery(rawQuery, options) ==
  LET q0 == ParseQuery(rawQuery)
      q1 == IF options.queryID # ""
            THEN ValuesSet(q0, queryIDParamName, options.queryID)
            ELSE q0
      q2 == IF options.quotaKey # ""
            THEN ValuesSet(q1, quotaKeyParamName, options.quotaKey)
            ELSE q1
  IN Encode(SetAll(q2, OverlaidSettings(options.settings)))

\* prepareRequest as it would be if the request shared the handle's URL
\* (req.URL = h.url) instead of parsing a copy of it
prepareRequestSharedURL(h, ctx, reader, options) ==
  LET new == NewRequestWithContext(ctx, h.url, reader)
  IN IF IsNil(options)
     THEN [h |-> h, req |-> new.req, err |-> new.err, panic |-> FALSE]
     ELSE IF IsNil(new.req)
     THEN [h |-> h, req |-> NoRequest, err |-> NilErr, panic |-> TRUE]
     ELSE LET merged == MergedQuery(new.req.rawQuery, options)
          IN [h |-> [h EXCEPT !.url = merged],
              req |-> [new.req EXCEPT !.rawQuery = merged],
              err |-> new.err, panic |-> FALSE]

\* httpConnect.prepareRequest; panic: req.URL is read through a nil req
prepareRequest(h, ctx, reader, options) ==
  LET new == NewRequestWithContext(ctx, h.url, reader)
  IN IF IsNil(options)
     THEN [h |-> h, req |-> new.req, err |-> new.err, panic |-> FALSE]
     ELSE IF IsNil(new.req)
     THEN [h |-> h, req |-> NoRequest, err |-> NilErr, panic |-> TRUE]
     ELSE [h |-> h,
           req |-> [new.req EXCEPT
                      !.rawQuery = MergedQuery(new.req.rawQuery, options)],
           err |-> new.err, panic |-> FALSE]

\* what executeRequest makes of a response that is not OK
serverError(h, resp) ==
  LET r == readResponse(resp)
  IN IF r.err # NilErr
     THEN [h |-> h, stream |-> NoStream,
           err |-> Wrap(r.err, "clickhouse [execute]:: failed to read the response"),
           exchanges |-> 1, body |-> r.body]
     ELSE [h |-> h, stream |-> NoStream,
           err |-> ErrorfExecute(resp.status, r.bytes), exchanges |-> 1,
           body |-> r.body]

\* the exchange as it would be if every 2xx status counted as success
exchangeAny2xx(h, req, resp) ==
  IF resp.neterr
  THEN [h |-> h, stream |-> NoStream, err |-> ErrNetwork, exchanges |-> 1,
        body |-> NoStream]
  ELSE IF resp.status < 200 \/ resp.status >= 300
  THEN serverError(h, resp)
  ELSE [h |-> h, stream |-> resp.body, err |-> NilErr, exchanges |-> 1,
        body |-> resp.body]

\* the exchange as it would be if a failed exchange was tried a second time
\* before the error is returned
exchangeRetries(h, req, resp) ==
  IF resp.neterr
  THEN [h |-> h, stream |-> NoStream, err |-> ErrNetwork, exchanges |-> 2,
        body |-> NoStream]
  ELSE IF resp.status # StatusOK
  THEN [serverError(h, resp) EXCEPT !.exchanges = 2]
  ELSE [h |-> h, stream |-> resp.body, err |-> NilErr, exchanges |-> 1,
        body |-> resp.body]

\* resp, err := h.client.Do(req) and what follows it in executeRequest;
\* resp is what the exchange meets, body the response body at the return;
\* exchanges counts the calls of h.client.Do
exchange(h, req, resp) ==
  IF resp.neterr
  THEN [h |-> h, stream |-> NoStream, err |-> ErrNetwork, exchanges |-> 1,
        body |-> NoStream]
  ELSE IF resp.status # StatusOK
  THEN serverError(h, resp)
  ELSE [h |-> h, stream |-> resp.body, err |-> NilErr, exchanges |-> 1,
        body |-> resp.body]

\* executeRequest as it would be without the check of h.client
executeRequestUnchecked(h, req, resp) == exchange(h, req, resp)

\* httpConnect.executeRequest
executeRequest(h, req, resp) ==
  IF h.client = NilClient
  THEN [h |-> h, stream |-> NoStream, err |-> ErrBadConn, exchanges |-> 0,
        body |-> NoStream]
  ELSE exchange(h, req, resp)

\* httpConnect.writeData; encodes: whether block.Encode(h.encoder, 0) succeeds
writeData(h, block, encodes) ==
  [h |-> h, err |-> IF encodes THEN NilErr ELSE ErrEncode, exchanges |-> 0]

\* httpConnect.readData; decoded: what block.Decode(h.decoder, 0) finds
readData(h, decoded) ==
  IF IsNil(decoded)
  THEN [h |-> h, block |-> NoBlock, err |-> ErrDecode, exchanges |-> 0]
  ELSE [h |-> h, block |-> decoded, err |-> NilErr, exchanges |-> 0]

\* the query path after the block was read: the rows are the decoded
\* block's columns and data
queryRead(e, d) ==
  IF d.err # NilErr
  THEN [h |-> d.h, rows |-> NoRows, err |-> d.err, exchanges |-> e.exchanges,
        panic |-> FALSE]
  ELSE [h |-> d.h, rows |-> d.block, err |-> NilErr,
        exchanges |-> e.exchanges, panic |-> FALSE]

\* the query path after the request was executed
queryExecuted(e, decoded) ==
  IF e.err # NilErr
  THEN [h |-> e.h, rows |-> NoRows, err |-> e.err, exchanges |-> e.exchanges,
        panic |-> FALSE]
  ELSE queryRead(e, readData(e.h, decoded))

\* the query path after the request was prepared
queryPrepared(p, resp, decoded) ==
  IF p.panic \/ p.err # NilErr
  THEN [h |-> p.h, rows |-> NoRows, err |-> p.err, exchanges |-> 0,
        panic |-> p.panic]
  ELSE queryExecuted(executeRequest(p.h, p.req, resp), decoded)

\* httpConnect.query: the query path, request builder -> response classifier
\* -> block codec
query(h, ctx, body, resp, decoded) ==
  queryPrepared(prepareRequest(h, ctx, body, EmptyOptions), resp, decoded)

\* what ping would return if it looked at the first column only
pingFirstColumnOf(q) ==
  IF q.panic \/ q.err # NilErr
  THEN [h |-> q.h, err |-> q.err, exchanges |-> q.exchanges, q |-> q,
        rowsClosed |-> FALSE]
  ELSE [h |-> q.h,
        err |-> IF Len(q.rows.columns) >= 1 /\ q.rows.columns[1] = "1"
                THEN NilErr ELSE ErrPing,
        exchanges |-> q.exchanges, q |-> q, rowsClosed |-> FALSE]

\* ping as it would be if it looked at the first column only
pingFirstColumn(h, ctx, resp, decoded) ==
  pingFirstColumnOf(query(h, ctx, "SELECT 1", resp, decoded))

\* what ping returns for the rows and error q of its query; rowsClosed tells
\* whether ping called rows.Close(), which it never does
pingColumns(q) ==
  IF q.panic \/ q.err # NilErr
  THEN [h |-> q.h, err |-> q.err, exchanges |-> q.exchanges, q |-> q,
        rowsClosed |-> FALSE]
  ELSE [h |-> q.h,
        err |-> IF Len(q.rows.columns) = 1 /\ q.rows.columns[1] = "1"
                THEN NilErr ELSE ErrPing,
        exchanges |-> q.exchanges, q |-> q, rowsClosed |-> FALSE]

\* httpConnect.ping
ping(h, ctx, resp, decoded) ==
  pingColumns(query(h, ctx, "SELECT 1", resp, decoded))

\* close as it would be if it released the connections and kept the client
closeKeepsClient(h, released) ==
  IF h.client = NilClient
  THEN [h |-> h, released |-> released, err |-> NilErr, steps |-> <<>>]
  ELSE [h |-> h, released |-> released + 1, err |-> NilErr,
        steps |-> <<"CloseIdleConnections">>]

\* close as it would be if it reset the whole handle
closeResetsHandle(h, released) ==
  IF h.client = NilClient
  THEN [h |-> h, released |-> released, err |-> NilErr, steps |-> <<>>]
  ELSE [h |-> [h EXCEPT !.client = NilClient, !.location = NoLocation],
        released |-> released + 1, err |-> NilErr,
        steps |-> <<"CloseIdleConnections", "client = nil">>]

\* close as it would be if the client was set to nil first: the call of
\* CloseIdleConnections then goes through the nil client and releases nothing
closeNilsFirst(h, released) ==
  IF h.client = NilClient
  THEN [h |-> h, released |-> released, err |-> NilErr, steps |-> <<>>]
  ELSE [h |-> [h EXCEPT !.client = NilClient], released |-> released,
        err |-> NilErr, steps |-> <<"client = nil", "CloseIdleConnections">>]

\* httpConnect.close; released: the calls of CloseIdleConnections so far;
\* steps: the statements executed after the check of h.client, in order
close(h, released) ==
  IF h.client = NilClient
  THEN [h |-> h, released |-> released, err |-> NilErr, steps |-> <<>>]
  ELSE [h |-> [h EXCEPT !.client = NilClient], released |-> released + 1,
        err |-> NilErr, steps |-> <<"CloseIdleConnections", "client = nil">>]

\* rows.Scan(&serverLocation): a row of one column fills the string, any other
\* row leaves it as it was; the error is not looked at
Scan(row, dest) == IF Len(row) = 1 THEN row[1] ELSE dest

\* whether rows.Scan of the row into one string returns an error
ScanFails(row) == Len(row) # 1

\* the loop as it would be if the location was resolved and not stored
dialRowsNotStored(data, i, location, sets) ==
  IF \E j \in i..Len(data) : LoadLocation(Scan(data[j], "")).err # NilErr
  THEN [location |-> location, sets |-> sets,
        err |-> ErrUnknownZone("Mars/Olympus")]
  ELSE [location |-> location, sets |-> sets, err |-> NilErr]

RECURSIVE dialRows(_, _, _, _)

\* one turn of the loop as it would be if a zone that does not resolve was
\* passed over and the loop went on
dialRowSkipsUnknown(data, i, location, sets, l) ==
  IF l.err # NilErr
  THEN dialRows(data, i + 1, location, sets)
  ELSE dialRows(data, i + 1, l.location, sets + 1)

\* one turn of the loop of dialHttp, with l what time.LoadLocation returned
dialRow(data, i, location, sets, l) ==
  IF l.err # NilErr
  THEN [location |-> location, sets |-> sets, err |-> l.err]
  ELSE dialRows(data, i + 1, l.location, sets + 1)

\* the loop of dialHttp over the rows, from row i; sets counts the
\* assignments of conn.location
dialRows(data, i, location, sets) ==
  IF i > Len(data)
  THEN [location |-> location, sets |-> sets, err |-> NilErr]
  ELSE dialRow(data, i, location, sets, LoadLocation(Scan(data[i], "")))

\* the endpoint dialHttp builds from Options.Settings
dialURL(settings) ==
  Encode(ValuesSet(SetAll(ParseQuery(<<>>), settings),
                   defaultFormatParamName, defaultFormatValue))

\* dialHttp after the loop over the rows q of the handshake returned r;
\* released counts the calls of CloseIdleConnections and rowsClosed tells
\* whether rows.Close() was called: dialHttp makes neither call
dialLocated(q, r) ==
  [conn |-> [q.h EXCEPT !.location = r.location], ok |-> r.err = NilErr,
   err |-> r.err, sets |-> r.sets, exchanges |-> q.exchanges, q |-> q,
   released |-> 0, rowsClosed |-> FALSE]

\* dialHttp after the handshake query returned q
dialHandshake(q) ==
  IF q.panic \/ q.err # NilErr
  THEN [conn |-> q.h, ok |-> FALSE, err |-> q.err, sets |-> 0,
        exchanges |-> q.exchanges, q |-> q, released |-> 0,
        rowsClosed |-> FALSE]
  ELSE dialLocated(q, dialRows(q.rows.data, 1, q.h.location, 0))

\* dialHttp; conn is the handle built, ok whether it is returned
dialHttp(ctx, settings, resp, decoded) ==
  dialHandshake(
    query([url |-> dialURL(settings), client |-> TheClient,
           location |-> NoLocation],
          ctx, "SELECT timeZone()", resp, decoded))

(* ------------------------------- state --------------------------------- *)
VARIABLES
  opt,           \* Options.Settings the handle is dialled with
  phase,         \* "new": before dialHttp; "open": dialHttp returned the
                 \* handle; "failed": dialHttp returned nil and an error
  url,           \* httpConnect.url
  client,        \* httpConnect.client
  location,      \* httpConnect.location
  released,      \* calls of client.CloseIdleConnections
  locationSets,  \* executions of conn.location = location
  closed,        \* close has been called
  last,          \* the last call: its inputs and what it returned
  running        \* the calls of executeRequest and of close in progress on
                 \* two goroutines: the statement each is at

vars ==
  <<opt, phase, url, client, location, released, locationSets, closed, last,
    running>>

\* the handle as the methods see it
Handle == [url |-> url, client |-> client, location |-> location]

SetHandle(h) ==
  /\ url' = h.url
  /\ client' = h.client
  /\ location' = h.location

\* the record of a call: the transport at the call, the error returned, the
\* HTTP exchanges made, whether it panicked, and what else the call shows
Call(op, err, exchanges, panic, more) ==
  [op |-> op, client |-> client, err |-> err, exchanges |-> exchanges,
   panic |-> panic] @@ more

\* The answers a query meets: the body of an OK answer is the block stream
\* that the decoder reads, an answer that is not OK has a text body
QueryResponses ==
  {r \in Responses :
     \/ r.neterr
     \/ r.status # StatusOK
     \/ r.body.data = <<>> /\ r.body.failAfter = -1}

IsOK(resp) == ~resp.neterr /\ resp.status = StatusOK

DecodableAfter(resp, blocks) == IF IsOK(resp) THEN {NoBlock} \cup blocks ELSE {NoBlock}

\* the blocks a SELECT 1 is answered with: at most one row
PingBlocks == {b \in Blocks : Len(b.data) <= 1 /\ ~b.iterErr}

\* the blocks written and read directly: columns without rows
EmptyBlocks == {b \in Blocks : Len(b.data) = 0 /\ ~b.iterErr}

\* no call of executeRequest or close is in progress
NoneRunning ==
  [exec |-> "idle", seen |-> NilClient, close |-> "idle", overlap |-> FALSE]

Init ==
  /\ opt \in DialSettings
  /\ phase = "new"
  /\ url = <<>>
  /\ client = NilClient
  /\ location = NoLocation
  /\ released = 0
  /\ locationSets = 0
  /\ closed = FALSE
  /\ last = [op |-> "none", client |-> NilClient, err |-> NilErr,
             exchanges |-> 0, panic |-> FALSE]
  /\ running = NoneRunning

\* a method returned r: the handle is as the method left it and the call is
\* recorded
Returns(op, r, panic, more) ==
  /\ SetHandle(r.h)
  /\ last' = Call(op, r.err, r.exchanges, panic, more)

DialReturns(d) ==
  /\ phase' = IF d.ok THEN "open" ELSE "failed"
  /\ SetHandle(d.conn)
  /\ locationSets' = d.sets
  /\ released' = released + d.released
  /\ last' = Call("dialHttp", d.err, d.exchanges, d.q.panic,
                  [qerr |-> d.q.err, rows |-> d.q.rows,
                   rowsClosed |-> d.rowsClosed])

Dial ==
  /\ phase = "new"
  /\ \E resp \in QueryResponses :
       \E decoded \in DecodableAfter(resp, Blocks) :
         DialReturns(dialHttp(BackgroundCtx, opt, resp, decoded))
  /\ UNCHANGED <<running, opt, closed>>

IsBad ==
  /\ phase = "open"
  /\ last' = Call("isBad", NilErr, 0, FALSE, [bad |-> isBad(Handle)])
  /\ UNCHANGED <<running, opt, phase, url, client, location, released,
                 locationSets, closed>>

PingReturns(p) ==
  Returns("ping", p, p.q.panic,
          [qerr |-> p.q.err,
           columns |-> IF IsNil(p.q.rows) THEN <<>> ELSE p.q.rows.columns,
           rowsClosed |-> p.rowsClosed])

Ping ==
  /\ phase = "open"
  /\ \E resp \in QueryResponses :
       \E decoded \in DecodableAfter(resp, PingBlocks) :
         PingReturns(ping(Handle, BackgroundCtx, resp, decoded))
  /\ UNCHANGED <<running, opt, phase, released, locationSets, closed>>

CloseReturns(c) ==
  /\ SetHandle(c.h)
  /\ released' = c.released
  /\ last' = Call("close", c.err, 0, FALSE, [steps |-> c.steps])

Close ==
  /\ phase = "open"
  /\ CloseReturns(close(Handle, released))
  /\ closed' = TRUE
  /\ UNCHANGED <<running, opt, phase, locationSets>>

PrepareRequestReturns(in, p) ==
  /\ SetHandle(p.h)
  /\ last' = Call("prepareRequest", p.err, 0, p.panic,
                  [ctx |-> in[1], options |-> in[2], req |-> p.req])

PrepareRequest ==
  /\ phase = "open"
  /\ \E in \in PrepareInputs :
       PrepareRequestReturns(in, prepareRequest(Handle, in[1], "SELECT 1", in[2]))
  /\ UNCHANGED <<running, opt, phase, released, locationSets, closed>>

ExecuteRequestReturns(resp, e) ==
  Returns("executeRequest", e, FALSE,
          [resp |-> resp, stream |-> e.stream, body |-> e.body])

ExecuteRequest ==
  /\ phase = "open"
  /\ \E resp \in Responses :
       ExecuteRequestReturns(
         resp,
         executeRequest(
           Handle,
           prepareRequest(Handle, BackgroundCtx, "SELECT 1", NoOptions).req,
           resp))
  /\ UNCHANGED <<running, opt, phase, released, locationSets, closed>>

WriteData ==
  /\ phase = "open"
  /\ \E block \in EmptyBlocks, encodes \in BOOLEAN :
       Returns("writeData", writeData(Handle, block, encodes), FALSE, <<>>)
  /\ UNCHANGED <<running, opt, phase, released, locationSets, closed>>

ReadDataReturns(r) ==
  Returns("readData", r, FALSE, [decoded |-> ~IsNil(r.block)])

ReadData ==
  /\ phase = "open"
  /\ \E decoded \in {NoBlock} \cup EmptyBlocks :
       ReadDataReturns(readData(Handle, decoded))
  /\ UNCHANGED <<running, opt, phase, released, locationSets, closed>>

AsyncInsert ==
  /\ phase = "open"
  /\ \E q \in {"", "INSERT INTO t VALUES"}, wait \in BOOLEAN :
       Returns("asyncInsert", asyncInsert(Handle, BackgroundCtx, q, wait),
               FALSE, [query |-> q, wait |-> wait])
  /\ UNCHANGED <<running, opt, phase, released, locationSets, closed>>

Next ==
  \/ Dial
  \/ IsBad
  \/ Ping
  \/ Close
  \/ PrepareRequest
  \/ ExecuteRequest
  \/ WriteData
  \/ ReadData
  \/ AsyncInsert

Spec == Init /\ [][Next]_vars

(* ---- executeRequest and close on two goroutines, statement by statement ---- *)
\* The handle has no lock: one goroutine runs executeRequest and another runs
\* close on the same handle, and their statements interleave. A step of
\* close taken while executeRequest is between its check and its exchange,
\* and a call of executeRequest that starts while close is under way, make
\* the two calls overlap.

\* the check of executeRequest as it would be if it never found the client nil
foundNilNever(c) == FALSE

\* if h.client == nil, with c the value read from h.client
foundNil(c) == c = NilClient

\* executeRequest returned r; c is the client its check read
ExecReturns(c, resp, r, panic) ==
  /\ last' = [op |-> "executeRequest", client |-> c, err |-> r.err,
              exchanges |-> r.exchanges, panic |-> panic, resp |-> resp,
              stream |-> r.stream, body |-> r.body,
              overlap |-> running.overlap \/ running.close # "idle"]
  /\ running' = [running EXCEPT !.exec = "idle", !.seen = NilClient,
                                !.overlap = FALSE]

\* executeRequest reads h.client and returns the closed-connection error or
\* goes on to the exchange
ExecCheck ==
  /\ phase = "open"
  /\ running.exec = "idle"
  /\ IF foundNil(client)
     THEN ExecReturns(client, NoResponse,
                      [err |-> ErrBadConn, exchanges |-> 0,
                       stream |-> NoStream, body |-> NoStream], FALSE)
     ELSE /\ running' = [running EXCEPT !.exec = "do", !.seen = client,
                                        !.overlap = running.close # "idle"]
          /\ UNCHANGED last
  /\ UNCHANGED <<opt, phase, url, client, location, released, locationSets,
                 closed>>

\* h.client.Do(req) through c, the value h.client yields at that statement:
\* a nil c is dereferenced and the call panics before any exchange
doThrough(c, resp) ==
  IF c = NilClient
  THEN ExecReturns(running.seen, resp,
                   [err |-> NilErr, exchanges |-> 0, stream |-> NoStream,
                    body |-> NoStream], TRUE)
  ELSE ExecReturns(running.seen, resp,
                   exchange(
                     [Handle EXCEPT !.client = c],
                     prepareRequest(Handle, BackgroundCtx, "SELECT 1",
                                    NoOptions).req,
                     resp),
                   FALSE)

\* executeRequest makes its exchange. The second read of h.client races with
\* the write in close: it yields what the field holds now, or, when the
\* value read by the check was kept, that value.
ExecDo ==
  /\ running.exec = "do"
  /\ \E c \in {client, running.seen} :
       \E resp \in Responses : doThrough(c, resp)
  /\ UNCHANGED <<opt, phase, url, client, location, released, locationSets,
                 closed>>

\* a statement of close was executed: the calls overlap when executeRequest
\* is between its check and its exchange
closeAt(pos) ==
  [running EXCEPT !.close = pos,
                  !.overlap = running.overlap \/ running.exec = "do"]

\* close reads h.client and returns when it is nil
CloseCheck ==
  /\ phase = "open"
  /\ running.close = "idle"
  /\ closed' = TRUE
  /\ IF client = NilClient
     THEN /\ running' = closeAt("idle")
          /\ last' = Call("close", NilErr, 0, FALSE, [steps |-> <<>>])
     ELSE /\ running' = closeAt("release")
          /\ UNCHANGED last
  /\ UNCHANGED <<opt, phase, url, client, location, released, locationSets>>

\* h.client.CloseIdleConnections()
CloseRelease ==
  /\ running.close = "release"
  /\ released' = released + 1
  /\ running' = closeAt("nil")
  /\ UNCHANGED <<opt, phase, url, client, location, locationSets, closed,
                 last>>

\* h.client = nil, and close returns
CloseNil ==
  /\ running.close = "nil"
  /\ client' = NilClient
  /\ running' = closeAt("idle")
  /\ last' = Call("close", NilErr, 0, FALSE,
                  [steps |-> <<"CloseIdleConnections", "client = nil">>])
  /\ UNCHANGED <<opt, phase, url, location, released, locationSets, closed>>

NextRace ==
  \/ Dial
  \/ ExecCheck
  \/ ExecDo
  \/ CloseCheck
  \/ CloseRelease
  \/ CloseNil

SpecRace == Init /\ [][NextRace]_vars

TypeOK ==
  /\ running \in [exec : {"idle", "do"}, seen : {NilClient, TheClient},
                   close : {"idle", "release", "nil"}, overlap : BOOLEAN]
  /\ phase \in {"new", "open", "failed"}
  /\ client \in {NilClient, TheClient}
  /\ released \in Nat
  /\ closed \in BOOLEAN
  /\ locationSets \in 0..MaxRows

(* ------------------------------ properties ----------------------------- *)
\* t occurs in s as a run of consecutive elements
ContainsSeq(s, t) ==
  \E i \in 0..(Len(s) - Len(t)) : SubSeq(s, i + 1, i + Len(t)) = t

\* the last call was op
Called(op) == last.op = op

\* the fields of the handle
handle == <<url, client, location>>

\* C1: the endpoint URL built by dialHttp and every request built by
\* prepareRequest carry exactly one default_format parameter, and its value
\* is "Native", whatever the dial settings and the per-call options hold.
Thm_C1 ==
  /\ phase # "new" =>
       ParamValues(url, defaultFormatParamName) = <<defaultFormatValue>>
  /\ Called("prepareRequest") /\ ~IsNil(last.req) =>
       ParamValues(last.req.rawQuery, defaultFormatParamName) = <<defaultFormatValue>>

\* a request was built from per-call settings that name default_format, on an
\* endpoint whose dial settings name it too
Witness_C1 ==
  /\ Called("prepareRequest")
  /\ ~IsNil(last.req)
  /\ ~IsNil(last.options)
  /\ defaultFormatParamName \in DOMAIN last.options.settings
  /\ defaultFormatParamName \in DOMAIN opt

\* C2: once close has been called the transport is absent and isBad returns
\* true, and every later close returns no error and changes nothing.
Thm_C2 ==
  /\ [](closed =>
          /\ client = NilClient
          /\ isBad(Handle)
          /\ (Called("isBad") => last.bad)
          /\ (Called("close") => last.err = NilErr))
  /\ [][closed /\ last'.op = "close" =>
          /\ UNCHANGED <<handle, released>>
          /\ last'.err = NilErr]_vars

\* close was called on a handle that was closed already
Witness_C2 ==
  /\ Called("close")
  /\ closed
  /\ last.client = NilClient
  /\ last.err = NilErr

\* C3: on a handle whose transport is absent, executeRequest and ping fail
\* with the bad-connection sentinel and make no HTTP exchange.
Thm_C3 ==
  (Called("executeRequest") \/ Called("ping")) /\ last.client = NilClient =>
    /\ last.err = ErrBadConn
    /\ last.exchanges = 0
    /\ ~last.panic

\* executeRequest was called after close
Witness_C3 ==
  /\ Called("executeRequest")
  /\ closed
  /\ last.client = NilClient
  /\ last.err = ErrBadConn

\* err is the error of a status that is not OK: it holds the code and the
\* whole text of the body
IsServerError(err, code, text) ==
  /\ err.kind = "fmt.Errorf"
  /\ \E i \in DOMAIN err.msg : err.msg[i] = Itoa(code)
  /\ ContainsSeq(err.msg, text)

\* exactly one of stream and error is returned, and the stream is returned
\* iff the exchange succeeds with status OK
StreamIffOK ==
  Called("executeRequest") =>
    /\ IsNil(last.stream) <=> last.err # NilErr
    /\ last.client # NilClient =>
         /\ last.err = NilErr <=> IsOK(last.resp)
         /\ IsOK(last.resp) => last.stream = last.resp.body

\* C4 as claimed: every status that is not OK gives a ServerError with the
\* code and the whole body.
Claim_C4 ==
  /\ StreamIffOK
  /\ Called("executeRequest") /\ last.client # NilClient
       /\ ~last.resp.neterr /\ last.resp.status # StatusOK =>
         /\ IsNil(last.stream)
         /\ IsServerError(last.err, last.resp.status, last.resp.body.data)

\* C4: executeRequest on an open handle returns the unread body and no error
\* iff the exchange succeeds with status OK; a status that is not OK gives no
\* stream and, when the body reads to its end, a ServerError with the code
\* and the whole body, and when the read of the body fails, the wrapped read
\* error. Exactly one of stream and error is returned.
Thm_C4 ==
  /\ StreamIffOK
  /\ Called("executeRequest") /\ last.client # NilClient
       /\ ~last.resp.neterr /\ last.resp.status # StatusOK =>
         /\ IsNil(last.stream)
         /\ last.resp.body.failAfter = -1 =>
              IsServerError(last.err, last.resp.status, last.resp.body.data)
         /\ last.resp.body.failAfter # -1 =>
              /\ last.err.kind = "errors.Wrap"
              /\ ContainsSeq(last.err.msg, ErrBodyRead.msg)

\* status 500 with the body "syntax error" came back as an error of both
Witness_C4 ==
  /\ Called("executeRequest")
  /\ last.client # NilClient
  /\ ~last.resp.neterr
  /\ last.resp.status = 500
  /\ last.resp.body.data = <<"syntax error">>
  /\ last.resp.body.failAfter = -1
  /\ last.err = ErrorfExecute(500, <<"syntax error">>)

\* C5: ping succeeds iff its query succeeds and returns exactly the one
\* column "1"; any other columns give the ping error, and a failed query
\* fails the ping.
Thm_C5 ==
  Called("ping") =>
    /\ last.err = NilErr <=> (last.qerr = NilErr /\ last.columns = <<"1">>)
    /\ last.qerr = NilErr /\ last.columns # <<"1">> => last.err = ErrPing
    /\ last.qerr # NilErr => last.err = last.qerr

\* the query returned two columns named "1" and the ping failed
Witness_C5 ==
  /\ Called("ping")
  /\ last.qerr = NilErr
  /\ last.columns = <<"1", "1">>
  /\ last.err = ErrPing

\* C6: a handshake of one row with one column that names a zone gives a
\* handle with that zone as its location; a handshake of no rows gives a
\* handle with no location and no error.
Thm_C6 ==
  Called("dialHttp") /\ last.qerr = NilErr =>
    /\ Len(last.rows.data) = 0 =>
         /\ phase = "open"
         /\ last.err = NilErr
         /\ location = NoLocation
    /\ (/\ Len(last.rows.data) = 1
        /\ Len(last.rows.columns) = 1
        /\ last.rows.data[1][1] \in KnownZones) =>
         /\ phase = "open"
         /\ last.err = NilErr
         /\ location = last.rows.data[1][1]

\* the handshake returned the one row "Europe/Berlin"
Witness_C6 ==
  /\ Called("dialHttp")
  /\ phase = "open"
  /\ last.qerr = NilErr
  /\ last.rows.data = <<<<"Europe/Berlin">>>>
  /\ location = "Europe/Berlin"

\* C7: asyncInsert fails with the not-supported error for every query, both
\* wait values and every state of the handle, makes no HTTP exchange and
\* changes nothing of the handle.
Thm_C7 ==
  /\ [](Called("asyncInsert") =>
          /\ last.err = ErrNotSupported
          /\ last.exchanges = 0)
  /\ [][last'.op = "asyncInsert" =>
          UNCHANGED <<handle, released, locationSets>>]_vars

\* asyncInsert was called with the empty query on a closed handle
Witness_C7 ==
  /\ Called("asyncInsert")
  /\ last.query = ""
  /\ last.client = NilClient
  /\ last.err = ErrNotSupported

\* C8 as claimed: the location is assigned at most once.
Claim_C8 == locationSets <= 1

\* C8: the location is assigned only inside dialHttp, once for every row of
\* the handshake, and no call after dialHttp has returned changes it.
Thm_C8 ==
  [][phase # "new" =>
       /\ location' = location
       /\ locationSets' = locationSets]_vars

\* a handle whose handshake had two rows was closed
Witness_C8 ==
  /\ phase = "open"
  /\ locationSets = 2
  /\ Called("close")
  /\ location # NoLocation

\* C9: a dialled handle has its transport until the first close; once the
\* transport is absent it stays absent, and no call makes an HTTP exchange.
Thm_C9 ==
  /\ [](phase = "open" /\ ~closed => client = TheClient /\ ~isBad(Handle))
  /\ [][phase = "open" /\ client = NilClient => client' = NilClient]_vars
  /\ [](phase = "open" /\ ~Called("dialHttp") /\ last.client = NilClient =>
          last.exchanges = 0)

\* ping was called on a closed handle
Witness_C9 ==
  /\ Called("ping")
  /\ closed
  /\ client = NilClient
  /\ last.exchanges = 0

\* C10: after dialHttp only close changes the handle, and it changes the
\* transport only; a request built with nil options carries exactly the
\* parameters of the endpoint as dialHttp built it.
Thm_C10 ==
  /\ [][phase = "open" /\ last'.op # "close" => UNCHANGED handle]_vars
  /\ [][phase = "open" => UNCHANGED <<url, location>>]_vars
  /\ [](Called("prepareRequest") /\ IsNil(last.options) /\ ~IsNil(last.req) =>
          /\ last.req.rawQuery = url
          /\ url = dialURL(opt))

\* a request carries the query identifier of its options and the endpoint
\* does not
Witness_C10 ==
  /\ Called("prepareRequest")
  /\ ~IsNil(last.options)
  /\ ~IsNil(last.req)
  /\ ParamValues(last.req.rawQuery, queryIDParamName) = <<"q1">>
  /\ ParamValues(url, queryIDParamName) = <<>>

\* the response body is closed and was read as far as it can be read
Drained(body, resp) ==
  /\ body.closed
  /\ body.data = resp.body.data
  /\ body.read = IF resp.body.failAfter = -1 THEN Len(resp.body.data)
                 ELSE resp.body.failAfter

\* C11: when executeRequest returns an error for a status that is not OK the
\* response body was read to its end, or to the read that failed, and closed
\* by readResponse on either of its exits; on success the body is returned
\* unread and not closed.
Thm_C11 ==
  Called("executeRequest") /\ last.client # NilClient /\ ~last.resp.neterr =>
    /\ last.resp.status # StatusOK =>
         /\ last.err # NilErr
         /\ Drained(last.body, last.resp)
    /\ last.resp.status = StatusOK =>
         /\ last.stream = last.body
         /\ ~last.body.closed
         /\ last.body.read = 0

\* the read of the body of a status 500 failed after its first chunk, and
\* the body is closed
Witness_C11 ==
  /\ Called("executeRequest")
  /\ last.client # NilClient
  /\ ~last.resp.neterr
  /\ last.resp.status = 500
  /\ last.resp.body.failAfter = 1
  /\ last.err.kind = "errors.Wrap"
  /\ last.body.closed
  /\ last.body.read = 1

\* the handshake of the last dialHttp met a failure: its query failed, a row
\* could not be scanned into the string, the iteration ended with an error,
\* or a row names a zone that does not resolve
HandshakeFailure ==
  \/ last.qerr # NilErr
  \/ /\ ~IsNil(last.rows)
     /\ \/ \E i \in 1..Len(last.rows.data) : ScanFails(last.rows.data[i])
        \/ last.rows.iterErr
        \/ \E i \in 1..Len(last.rows.data) :
             /\ ~ScanFails(last.rows.data[i])
             /\ last.rows.data[i][1] \notin KnownZones

\* C12: no failure is swallowed: dialHttp returns an error whenever the
\* handshake query fails, a row fails to scan into the timezone string, the
\* iteration over the rows ends with an error, or the timezone of a row does
\* not resolve; executeRequest returns an error whenever the exchange fails
\* or the body of an error response cannot be read.
Claim_C12 ==
  /\ Called("dialHttp") /\ HandshakeFailure => last.err # NilErr
  /\ Called("executeRequest") /\ last.client # NilClient =>
       /\ last.resp.neterr => last.err # NilErr
       /\ ~last.resp.neterr /\ last.resp.status # StatusOK
            /\ last.resp.body.failAfter # -1 => last.err # NilErr

\* dialHttp returned a handle in UTC although the only row of the handshake
\* has two columns and cannot be scanned into one string
Witness_C12 ==
  /\ Called("dialHttp")
  /\ phase = "open"
  /\ last.err = NilErr
  /\ ~IsNil(last.rows)
  /\ Len(last.rows.data) = 1
  /\ ScanFails(last.rows.data[1])
  /\ ~last.rows.iterErr
  /\ location = "UTC"

\* C13: every resource is released on every exit: when dialHttp fails, after
\* the transport it created, the idle connections of the transport and the
\* rows of the handshake, when there are any, were released before it
\* returned; when ping returns, the rows of its SELECT 1 were released.
Claim_C13 ==
  /\ Called("dialHttp") /\ phase = "failed" =>
       /\ released >= 1
       /\ last.qerr = NilErr => last.rowsClosed
  /\ Called("ping") /\ last.client # NilClient /\ last.qerr = NilErr =>
       last.rowsClosed

\* dialHttp failed on a zone that does not resolve, after an exchange through
\* its transport, and CloseIdleConnections was never called
Witness_C13 ==
  /\ Called("dialHttp")
  /\ phase = "failed"
  /\ last.qerr = NilErr
  /\ last.err = ErrUnknownZone("Mars/Olympus")
  /\ last.exchanges = 1
  /\ released = 0
  /\ ~last.rowsClosed

\* C14: there are no retries: a call of executeRequest makes one exchange at
\* most, exactly one when the client is present, and the error of a failed
\* exchange or of a status that is not OK is returned by that same call after
\* that one exchange; the methods built on it make one exchange at most too.
Thm_C14 ==
  /\ last.exchanges <= 1
  /\ Called("executeRequest") =>
       /\ last.client = NilClient => last.exchanges = 0
       /\ last.client # NilClient =>
            /\ last.exchanges = 1
            /\ last.resp.neterr => last.err = ErrNetwork /\ IsNil(last.stream)
            /\ ~last.resp.neterr /\ last.resp.status # StatusOK =>
                 last.err # NilErr /\ IsNil(last.stream)

\* a transport failure came back as the error of the call after one exchange
Witness_C14 ==
  /\ Called("executeRequest")
  /\ last.client # NilClient
  /\ last.resp.neterr
  /\ last.err = ErrNetwork
  /\ last.exchanges = 1

\* the values that the overlay of the options on the endpoint leaves for the
\* parameter k: the per-call setting of that name, else the query identifier
\* or the quota key when it is not empty, else what the endpoint holds
OverlayOf(endpoint, options, k) ==
  IF k \in DOMAIN options.settings /\ k # defaultFormatParamName
  THEN <<Sprint(options.settings[k])>>
  ELSE IF k = queryIDParamName /\ options.queryID # ""
  THEN <<options.queryID>>
  ELSE IF k = quotaKeyParamName /\ options.quotaKey # ""
  THEN <<options.quotaKey>>
  ELSE ParamValues(endpoint, k)

\* C15: with options that are not nil, the parameters of the request are
\* those of the endpoint overlaid by the query identifier, then the quota
\* key, then the per-call settings: a per-call setting named query_id or
\* quota_key replaces the value of the options' field, an empty field leaves
\* the endpoint's parameter as it is, and every parameter that the options
\* do not name is preserved.
Thm_C15 ==
  Called("prepareRequest") /\ ~IsNil(last.options) /\ ~IsNil(last.req) =>
    /\ \A k \in Keys :
         ParamValues(last.req.rawQuery, k) = OverlayOf(url, last.options, k)
    /\ \A i \in 1..Len(last.req.rawQuery) : last.req.rawQuery[i][1] \in Keys

\* the options carry a query identifier and a per-call setting named
\* query_id, whose value is the one in the request; the quota key is empty,
\* and the request keeps the quota_key of the endpoint
Witness_C15 ==
  /\ Called("prepareRequest")
  /\ ~IsNil(last.options)
  /\ ~IsNil(last.req)
  /\ last.options.queryID = "q1"
  /\ last.options.quotaKey = ""
  /\ queryIDParamName \in DOMAIN last.options.settings
  /\ quotaKeyParamName \notin DOMAIN last.options.settings
  /\ ParamValues(last.req.rawQuery, queryIDParamName) = <<"JSON">>
  /\ ParamValues(last.req.rawQuery, quotaKeyParamName) = <<"0">>

\* the handshake of the last dialHttp returned rows of one column, n >= 1 of
\* them
HandshakeRows ==
  /\ Called("dialHttp")
  /\ last.qerr = NilErr
  /\ ~IsNil(last.rows)
  /\ Len(last.rows.data) >= 1
  /\ \A i \in 1..Len(last.rows.data) : ~ScanFails(last.rows.data[i])

\* C16: when the handshake returns n >= 1 rows that all resolve, dialHttp
\* succeeds and the timezone of the handle is the value of the last row;
\* when any row does not resolve, dialHttp fails and returns no handle, even
\* if earlier rows resolved.
Thm_C16 ==
  HandshakeRows =>
    LET data == last.rows.data
    IN /\ (\A i \in 1..Len(data) : data[i][1] \in KnownZones) =>
            /\ phase = "open"
            /\ last.err = NilErr
            /\ location = data[Len(data)][1]
       /\ (\E i \in 1..Len(data) : data[i][1] \notin KnownZones) =>
            /\ phase = "failed"
            /\ last.err = ErrUnknownZone("Mars/Olympus")

\* the first row resolved and the second did not: no handle is returned
Witness_C16 ==
  /\ HandshakeRows
  /\ Len(last.rows.data) = 2
  /\ last.rows.data[1][1] = "UTC"
  /\ last.rows.data[2][1] = "Mars/Olympus"
  /\ phase = "failed"

\* C17: whenever the construction of the request fails, prepareRequest
\* returns the construction error and no request, with nil options and with
\* options that are not nil alike, and never reads the request that was not
\* constructed.
Claim_C17 ==
  Called("prepareRequest") /\ last.ctx = NilCtx =>
    /\ ~last.panic
    /\ last.err = ErrNilContext
    /\ IsNil(last.req)

\* the construction failed on the nil context and, the options not being
\* nil, prepareRequest read req.URL through the nil request and panicked
Witness_C17 ==
  /\ Called("prepareRequest")
  /\ last.ctx = NilCtx
  /\ ~IsNil(last.options)
  /\ last.panic
  /\ last.err = NilErr

\* C18: over any sequence of close calls the idle connections are released
\* exactly once: by the first close, which calls CloseIdleConnections before
\* it sets the client to nil; every later close releases nothing.
Thm_C18 ==
  /\ [](released = IF closed THEN 1 ELSE 0)
  /\ [](Called("close") =>
          last.steps = IF last.client = NilClient THEN <<>>
                       ELSE <<"CloseIdleConnections", "client = nil">>)
  /\ [][last'.op = "close" =>
          /\ ~closed => released' = released + 1 /\ client' = NilClient
          /\ closed => released' = released /\ last'.steps = <<>>]_vars

\* a second close found the client nil and released nothing more
Witness_C18 ==
  /\ Called("close")
  /\ last.client = NilClient
  /\ last.steps = <<>>
  /\ released = 1
  /\ closed

\* C19: for every interleaving of close with executeRequest on one handle,
\* with nothing that serializes them, executeRequest returns the
\* closed-connection error without any exchange or makes its exchange through
\* the transport that was present; it never attempts the exchange through a
\* client that close has set to nil.
Claim_C19 ==
  Called("executeRequest") =>
    /\ ~last.panic
    /\ \/ last.err = ErrBadConn /\ last.exchanges = 0
       \/ last.exchanges = 1

\* C19, for the calls that do not overlap with a call of close: a call of
\* executeRequest that found the client nil returns the closed-connection
\* error without any exchange, and one that found it present makes one
\* exchange through it and does not panic.
Thm_C19 ==
  Called("executeRequest") /\ ~last.overlap =>
    /\ ~last.panic
    /\ last.client = NilClient => last.err = ErrBadConn /\ last.exchanges = 0
    /\ last.client = TheClient => last.exchanges = 1

\* executeRequest ran after a close that had returned, found the client nil
\* and made no exchange
Witness_C19 ==
  /\ Called("executeRequest")
  /\ ~last.overlap
  /\ closed
  /\ released = 1
  /\ last.client = NilClient
  /\ last.err = ErrBadConn
  /\ last.exchanges = 0

====
